---------------------------- MODULE Spec2Model ----------------------------
(***************************************************************************)
(* Model of the multi-platform fan-out posting coordinator (PostManager)   *)
(* of the socialbot repository: content generation, concurrent publishing  *)
(* through a thread pool, aggregation of the per-platform outcomes and the *)
(* retry of failed platforms.                                              *)
(***************************************************************************)
EXTENDS Integers, Sequences, FiniteSets, TLC

VARIABLES
    enabled,              \* config.PLATFORMS[p]['enabled']
    credentials,          \* config: the credentials of each platform
    twitter_client,       \* TwitterPoster.client
    linkedin_access_token,\* LinkedInPoster.access_token
    linkedin_user_id,     \* LinkedInPoster.user_id
    reddit_client,        \* RedditPoster.reddit
    available_platforms,  \* PostManager.available_platforms
    pc,                   \* position of the coordinator
    op,                   \* the operation in progress: "process" or "retry"
    idea,                 \* the idea of the operation: the words it contains
    subreddits,           \* the list get_suitable_subreddits returned
    already_posted,       \* platforms that succeeded before the retry button
    regen_raised,         \* platforms whose regeneration raised in this retry
    text,                 \* a text on its way from the backend to a platform
    prior,                \* original_results handed to retry_failed_posts
    failed_platforms,     \* retry_failed_posts: failed_platforms
    posts,                \* the ContentSet handed to _post_to_platforms
    todo,                 \* platforms the submit loop has not reached yet
    fut,                  \* state of each platform's future
    behav,                \* what the remote platform and the log sink did
    log_records,          \* status of the rows log_post wrote, per platform
    results,              \* _post_to_platforms: results
    completed,            \* platforms in the order as_completed yielded them
    ret,                  \* the dictionary returned by the last operation
    publishCalls,         \* adapter publish calls of this operation
    genCalls,             \* generate_posts calls of this operation
    generation,           \* how process_idea's generate_posts call ended
    elapsed,              \* time the coordinator has been blocked waiting
    report                \* the dictionary returned by the last diagnostic call

vars == <<enabled, credentials, twitter_client, linkedin_access_token, linkedin_user_id,
          reddit_client, available_platforms, pc, op, prior, failed_platforms,
          posts, todo, fut, behav, results, completed, ret, publishCalls,
          genCalls, generation, elapsed, report, log_records, idea,
          subreddits, already_posted, regen_raised, text>>

configVars == <<enabled, credentials, twitter_client, linkedin_access_token,
                linkedin_user_id, reddit_client, available_platforms>>

-----------------------------------------------------------------------------
(* Platforms and configuration *)

\* the keys of config.PLATFORMS
Platforms == {"twitter", "linkedin", "reddit"}

\* iteration order of config.PLATFORMS (dict insertion order)
PlatformOrder == <<"twitter", "linkedin", "reddit">>

\* future.result(timeout=60)
PlatformTimeout == 60

\* ThreadPoolExecutor(max_workers=3)
MaxWorkers == 3

\* marker of a key that a dictionary does not hold
NoKey == "<nokey>"

\* the states of a credential read with os.getenv
CredStates == {"unset", "empty", "set"}

-----------------------------------------------------------------------------
(* Adapter construction *)

\* TwitterPoster.__init__: the value of self.client
TwitterPosterInit(cred, initOk) ==
    IF cred # "set" THEN "None"
    ELSE IF initOk THEN "client" ELSE "None"

\* LinkedInPoster.__init__: access_token and user_id; user_id is assigned
\* only when the token is truthy, otherwise the attribute does not exist
LinkedInPosterInit(cred, initOk) ==
    IF cred = "unset" THEN [access_token |-> "None", user_id |-> "<noattr>"]
    ELSE IF cred = "empty" THEN [access_token |-> "", user_id |-> "<noattr>"]
    ELSE [access_token |-> "token",
          user_id |-> IF initOk THEN "id" ELSE "None"]

\* RedditPoster.__init__: the value of self.reddit
RedditPosterInit(cred, initOk) ==
    IF cred # "set" THEN "None"
    ELSE IF initOk THEN "reddit" ELSE "None"

\* _check_platform_availability reads an attribute that does not exist
CheckAvailabilityRaises(en, lt, lu) ==
    en["linkedin"] /\ lt # "None" /\ lu = "<noattr>"

\* _check_platform_availability
check_platform_availability(en, tc, lt, lu, rc) ==
    [p \in Platforms |->
        CASE p = "twitter"  -> en[p] /\ tc # "None"
          [] p = "linkedin" -> en[p] /\ lt # "None" /\ lu # "None"
          [] p = "reddit"   -> en[p] /\ rc # "None"]

-----------------------------------------------------------------------------
(* Content generation *)

\* what the language-model backend does for one platform's request:
\* the request fails, the text is blank after strip(), or it is a text
RawResponses == {"fail", "blank", "text"}

\* _generate_single_post followed by the try/except of generate_posts
GeneratedContent(raw) ==
    CASE raw = "fail"  -> "None"
      [] raw = "blank" -> ""
      [] raw = "text"  -> "text"
\* the "if settings['enabled']" test left out
generate_posts_all(raw) ==
    [p \in Platforms |-> GeneratedContent(raw[p])]

\* generate_posts: one entry per enabled platform
generate_posts(raw) ==
    [p \in Platforms |-> IF enabled[p] THEN GeneratedContent(raw[p]) ELSE NoKey]

\* truthiness of a content value in Python
Truthy(content) == content \notin {"None", "", NoKey}

\* keys of a ContentSet
Keys(ps) == {p \in Platforms : ps[p] # NoKey}

\* any(posts.values())
AnyPosts(ps) == \E p \in Keys(ps) : Truthy(ps[p])
\* "if not posts": the dictionary tested, not its values
NoPostsGeneratedEmptyDict(ps) == Keys(ps) = {}

\* process_idea: the fail-fast test "if not any(posts.values())"
NoPostsGenerated(ps) == ~AnyPosts(ps)

-----------------------------------------------------------------------------
(* Routing of the reddit post: get_suitable_subreddits *)

\* the keys of subreddit_mapping, in the order of the dictionary
Keywords ==
    <<"ai", "technology", "business", "education", "science", "programming",
      "finance", "health", "gaming", "music", "art", "photography">>

\* words an idea can contain: the keywords, two of them capitalised, and a
\* word that is no keyword
Words == {Keywords[i] : i \in DOMAIN Keywords} \cup {"AI", "Music", "hello"}

\* str.lower() on one word
LowerWord(w) ==
    CASE w = "AI"    -> "ai"
      [] w = "Music" -> "music"
      [] OTHER       -> w
\* the topic used as it was typed
LowerIdentity(topic) == topic

\* topic.lower(): the words of the lower-cased topic
Lower(topic) == {LowerWord(w) : w \in topic}

subreddit_mapping ==
    [k \in {Keywords[i] : i \in DOMAIN Keywords} |->
        CASE k = "ai" ->
               <<"artificial", "MachineLearning", "singularity", "technology">>
          [] k = "technology" ->
               <<"technology", "programming", "coding", "tech">>
          [] k = "business" ->
               <<"business", "entrepreneur", "startups", "investing">>
          [] k = "education" ->
               <<"education", "teaching", "learning", "studytips">>
          [] k = "science" ->
               <<"science", "askscience", "EverythingScience">>
          [] k = "programming" ->
               <<"programming", "coding", "learnprogramming", "webdev">>
          [] k = "finance" ->
               <<"personalfinance", "investing", "financialindependence">>
          [] k = "health" ->
               <<"health", "fitness", "nutrition", "wellness">>
          [] k = "gaming" ->
               <<"gaming", "games", "pcgaming", "nintendo">>
          [] k = "music" ->
               <<"music", "WeAreTheMusicMakers", "edmproduction">>
          [] k = "art" ->
               <<"art", "drawing", "painting", "design">>
          [] k = "photography" ->
               <<"photography", "photocritique", "itookapicture">>]

DefaultSubreddits == <<"test", "CasualConversation", "discussion">>

\* suitable_subreddits[:3]
TopSuggestions == 3

\* the loop "for key, subreddits in subreddit_mapping.items()"
RECURSIVE ExtendSuitable(_, _)
ExtendSuitable(keys, topic_lower) ==
    IF keys = <<>> THEN <<>>
    ELSE (IF Head(keys) \in topic_lower
          THEN subreddit_mapping[Head(keys)] ELSE <<>>)
         \o ExtendSuitable(Tail(keys), topic_lower)

\* RedditPoster.get_suitable_subreddits
get_suitable_subreddits(topic) ==
    LET found == ExtendSuitable(Keywords, Lower(topic))
        suitable == IF found = <<>> THEN DefaultSubreddits ELSE found
    IN  SubSeq(suitable, 1,
               IF Len(suitable) < TopSuggestions THEN Len(suitable)
               ELSE TopSuggestions)

\* _post_to_single_platform: subreddits[0] if subreddits else "test"
TargetSubreddit(subs) == IF subs # <<>> THEN subs[1] ELSE "test"

\* the ideas handed to process_idea and retry_failed_posts
Ideas == {{"hello"}, {"AI", "programming"}}

-----------------------------------------------------------------------------
(* Lengths of texts: _generate_single_post and truncate_content *)

\* a text, by its length and the number of times it was cut
NoText ==
    [stage |-> "none", platform |-> "<none>", raw |-> 0, max_length |-> 0,
     stored |-> [len |-> 0, cuts |-> 0], sent |-> [len |-> 0, cuts |-> 0]]

\* config.PLATFORMS[p]['max_length']
max_length == [twitter |-> 280, linkedin |-> 3000, reddit |-> 10000]

\* the limit each adapter passes to truncate_content
AdapterLimit == [twitter |-> 280, linkedin |-> 3000, reddit |-> 10000]

\* length of the Python slice s[:n] of a text of length len
SliceLength(len, n) ==
    IF n >= 0 THEN (IF n < len THEN n ELSE len)
    ELSE (IF len + n > 0 THEN len + n ELSE 0)

\* _generate_single_post: "if len(content) > max_length:
\* content = content[:max_length - 3] + '...'"
GeneratedText(raw, limit) ==
    IF raw > limit
    THEN [len |-> SliceLength(raw, limit - 3) + 3, cuts |-> 1]
    ELSE [len |-> raw, cuts |-> 0]
\* the slice taken at max_length, the dots appended after it
truncate_content_late(t, limit, platform) ==
    IF t.len <= limit THEN t
    ELSE [len |-> SliceLength(t.len, limit) + 3, cuts |-> t.cuts + 1]

\* utils.truncate_content
truncate_content(t, limit, platform) ==
    IF t.len <= limit THEN t
    ELSE IF platform = "twitter"
         THEN [len |-> SliceLength(t.len, limit - 10) + 3, cuts |-> t.cuts + 1]
         ELSE [len |-> SliceLength(t.len, limit - 3) + 3, cuts |-> t.cuts + 1]

-----------------------------------------------------------------------------
(* Outcomes *)

NoOutcome == [success |-> FALSE, error |-> "<absent>", origin |-> "<absent>"]

Synthetic(msg) == [success |-> FALSE, error |-> msg, origin |-> "coordinator"]

\* what the remote platform does with a publish request, and whether the
\* log sink (log_post) fails during the call
RemoteOutcomes == {"ok", "error", "hang"}
LogOutcomes == {"ok", "fail"}
Behaviours == [remote : RemoteOutcomes, log : LogOutcomes]
NoBehaviour == [remote |-> "<none>", log |-> "<none>"]

\* post_tweet / post_to_linkedin / post_to_reddit for a call that comes back:
\* the returned dictionary, or kind "raise" when log_post raises out of the
\* adapter (from the success branch into the handler, and out of the handler)
AdapterPublish(p, ready, b) ==
    IF ~ready THEN
        IF b.log = "fail" THEN [kind |-> "raise", value |-> NoOutcome]
        ELSE [kind |-> "return",
              value |-> [success |-> FALSE, error |-> "API not initialized",
                         origin |-> p]]
    ELSE IF b.log = "fail" THEN [kind |-> "raise", value |-> NoOutcome]
    ELSE IF b.remote = "ok" THEN
        [kind |-> "return",
         value |-> [success |-> TRUE, error |-> "<none>", origin |-> p]]
    ELSE
        [kind |-> "return",
         value |-> [success |-> FALSE, error |-> "adapter error", origin |-> p]]

\* the rows log_post writes during one publish call that comes back: none
\* when the log sink fails, otherwise one row with the status of the outcome
AdapterLog(ready, b) ==
    IF b.log = "fail" \/ b.remote = "hang" THEN <<>>
    ELSE IF ready /\ b.remote = "ok" THEN <<"success">>
    ELSE <<"failed">>

\* the readiness test each adapter makes before publishing
AdapterReady(p) ==
    CASE p = "twitter"  -> twitter_client # "None"
      [] p = "linkedin" -> linkedin_access_token \notin {"None", ""}
                           /\ linkedin_user_id \notin {"None", "", "<noattr>"}
      [] p = "reddit"   -> reddit_client # "None"

\* adapters sharing one connection: the call fails when its outcome is
\* taken while another publish task is still queued or running
post_to_single_platform_contended(p, b) ==
    IF \E q \in Platforms \ {p} : fut[q] \in {"queued", "running"}
    THEN [kind |-> "return",
          value |-> [success |-> FALSE, error |-> "Error posting to",
                     origin |-> p]]
    ELSE LET r == AdapterPublish(p, AdapterReady(p), b) IN
         IF r.kind = "raise"
         THEN [kind |-> "return",
               value |-> [success |-> FALSE, error |-> "Error posting to",
                          origin |-> p]]
         ELSE r

\* _post_to_single_platform: the adapter call inside try/except Exception
post_to_single_platform(p, b) ==
    LET r == AdapterPublish(p, AdapterReady(p), b) IN
    IF r.kind = "raise"
    THEN [kind |-> "return",
          value |-> [success |-> FALSE, error |-> "Error posting to",
                     origin |-> p]]
    ELSE r

\* one result slot shared by the tasks: every future yields the outcome of
\* the task that completed first
FutureOutcomeShared(p, r) ==
    IF completed = <<>>
    THEN IF r.kind = "raise"
         THEN [success |-> FALSE, error |-> "Exception posting to", origin |-> p]
         ELSE r.value
    ELSE results[completed[1]]

\* the body of the as_completed loop: future.result() or the handler
FutureOutcome(p, r) ==
    IF r.kind = "raise"
    THEN [success |-> FALSE, error |-> "Exception posting to", origin |-> p]
    ELSE r.value


-----------------------------------------------------------------------------
(* The fan-out: _post_to_platforms *)

EmptyResults == [p \in Platforms |-> NoOutcome]

\* a list of pairs in which every platform appears twice, in place of the
\* dictionary
KeysInOrderRepeated(ps, order) ==
    LET ks == SelectSeq(order, LAMBDA p : ps[p] # NoKey) IN ks \o ks

\* the platforms of a sequence-ordered dictionary, in iteration order
RECURSIVE KeysInOrder(_, _)
KeysInOrder(ps, order) ==
    IF order = <<>> THEN <<>>
    ELSE IF ps[Head(order)] # NoKey
         THEN <<Head(order)>> \o KeysInOrder(ps, Tail(order))
         ELSE KeysInOrder(ps, Tail(order))
\* the availability test left out of the submit condition
EligibleIgnoringAvailability(p, content) == Truthy(content)

\* _post_to_platforms: "if content and self.available_platforms.get(platform, False)"
Eligible(p, content) == Truthy(content) /\ available_platforms[p]

\* the two branches in the other order: availability tested first
SyntheticFailureAvailabilityFirst(content) ==
    IF ~available_platforms[Head(todo)]
    THEN Synthetic("Platform not available")
    ELSE Synthetic("No content generated")

\* _post_to_platforms: the elif / else branches of the submit loop
SyntheticFailure(content) ==
    IF ~Truthy(content) THEN Synthetic("No content generated")
    ELSE Synthetic("Platform not available")
\* a stale loop variable: the platform of the last submit-loop iteration
future_to_platform_stale(p) ==
    LET ks == KeysInOrder(posts, PlatformOrder) IN ks[Len(ks)]

\* _post_to_platforms: "platform = future_to_platform[future]"
future_to_platform(p) == p

\* a wait that ends with the futures already done: queued and running tasks
\* are not waited for
OutstandingDoneOnly == {p \in Platforms : fut[p] = "done"}

\* futures the as_completed loop has still to yield
Outstanding ==
    {p \in Platforms : fut[p] \in {"queued", "running", "done", "hung"}}

-----------------------------------------------------------------------------
(* Results of process_idea and retry_failed_posts *)

NoRet ==
    [keys |-> {}, success |-> FALSE, error |-> "<absent>",
     message |-> "<absent>", results |-> EmptyResults,
     successful_posts |-> -1, total_platforms |-> -1,
     retried_platforms |-> {}]
\* the success filter left out: every outcome counted
SuccessCountUnfiltered(res) ==
    Cardinality({p \in Platforms : res[p] # NoOutcome})

\* process_idea: success_count
SuccessCount(res) == Cardinality({p \in Platforms : res[p].success})
\* len(self.available_platforms): the keys counted, not the available ones
TotalPlatformsAllKeys == Cardinality(DOMAIN available_platforms)

\* process_idea: total_platforms
TotalPlatforms == Cardinality({p \in Platforms : available_platforms[p]})

\* process_idea: {"success": False, "error": "Failed to generate any posts"}
FailFastReturn ==
    [NoRet EXCEPT !.keys = {"success", "error"},
                  !.error = "Failed to generate any posts"]

\* process_idea: the except branch
ExceptionReturn ==
    [NoRet EXCEPT !.keys = {"success", "error"},
                  !.error = "Error processing idea"]

\* a fan-out without a success reported as an error, without the mapping
ProcessReturnAbortOnFailure(res) ==
    IF SuccessCount(res) = 0
    THEN [NoRet EXCEPT !.keys = {"success", "error"},
                       !.error = "All platforms failed"]
    ELSE [NoRet EXCEPT !.keys = {"success", "results", "summary"},
                       !.success = TRUE,
                       !.results = res,
                       !.successful_posts = SuccessCount(res),
                       !.total_platforms = TotalPlatforms]

\* process_idea: Step 3, the compiled result
ProcessReturn(res) ==
    [NoRet EXCEPT !.keys = {"success", "results", "summary"},
                  !.success = SuccessCount(res) > 0,
                  !.results = res,
                  !.successful_posts = SuccessCount(res),
                  !.total_platforms = TotalPlatforms]

\* the prior results retry_failed_posts can be handed: with or without a
\* "results" mapping, each platform absent, a success or a failure
PriorMarks == {NoKey, "success", "failure"}
PriorResults ==
    {pr \in [keys : {{"success", "error"}, {"success", "results", "summary"}},
             results : [Platforms -> PriorMarks]] :
        "results" \notin pr.keys => \A p \in Platforms : pr.results[p] = NoKey}
NoPrior == [keys |-> {}, results |-> [p \in Platforms |-> NoKey]]
\* the "not" of the success test left out: every prior outcome retried
FailedPlatformsAll(pr) == {p \in Platforms : pr.results[p] # NoKey}

\* a prior result without a results mapping read as a failure of every
\* platform
FailedPlatformsOrAll(pr) ==
    IF "results" \notin pr.keys THEN Platforms
    ELSE {p \in Platforms : pr.results[p] = "failure"}

\* retry_failed_posts: failed_platforms
FailedPlatforms(pr) == {p \in Platforms : pr.results[p] = "failure"}
\* the early return left out: a fan-out over no platform
NoFailedReturnFallThrough ==
    [NoRet EXCEPT !.keys = {"success", "results", "retried_platforms"}]

\* retry_failed_posts: {"success": True, "message": "No failed posts to retry"}
NoFailedReturn ==
    [NoRet EXCEPT !.keys = {"success", "message"},
                  !.success = TRUE,
                  !.message = "No failed posts to retry"]

\* retry_failed_posts: the returned retried_platforms
RetriedPlatforms(failed) == failed

\* the retry's outcomes merged into the prior result: the platforms that
\* had succeeded before carried over as successes
RetryReturnMerged(res, failed) ==
    [NoRet EXCEPT !.keys = {"success", "results", "retried_platforms"},
                  !.success = TRUE,
                  !.results =
                      [p \in Platforms |->
                          IF prior.results[p] = "success"
                          THEN [success |-> TRUE, error |-> "<none>",
                                origin |-> p]
                          ELSE res[p]],
                  !.retried_platforms = failed]

\* retry_failed_posts: the result of a retry that fanned out
RetryReturn(res, failed) ==
    [NoRet EXCEPT !.keys = {"success", "results", "retried_platforms"},
                  !.success = (\E p \in Platforms : res[p].success),
                  !.results = res,
                  !.retried_platforms = RetriedPlatforms(failed)]

-----------------------------------------------------------------------------
(* Diagnostics: test_all_connections and get_platform_status *)

\* the keys of the dictionary test_all_connections returns
Probed == {"llm"} \cup Platforms

NoReport ==
    [kind |-> "none",
     connections |-> [k \in Probed |-> FALSE],
     status |-> [p \in Platforms |->
                   [enabled |-> FALSE, available |-> FALSE,
                    configured |-> FALSE]]]

\* test_all_connections: the llm probe, and each adapter's probe when the
\* adapter holds a client (linkedin: a truthy access token), else False
test_all_connections(probe) ==
    [k \in Probed |->
        CASE k = "llm"      -> probe[k]
          [] k = "twitter"  -> IF twitter_client # "None" THEN probe[k] ELSE FALSE
          [] k = "linkedin" -> IF linkedin_access_token \notin {"None", ""}
                               THEN probe[k] ELSE FALSE
          [] k = "reddit"   -> IF reddit_client # "None" THEN probe[k] ELSE FALSE]

\* the credential tests left out: "configured" stays at its initial False
ConfiguredDefault(p) == FALSE

\* get_platform_status: all([...]) / bool(...) of the platform's credentials
Configured(p) == credentials[p] = "set"

\* get_platform_status
get_platform_status ==
    [p \in Platforms |->
        [enabled |-> enabled[p],
         available |-> available_platforms[p],
         configured |-> Configured(p)]]

-----------------------------------------------------------------------------
(* Initial states: a coordinator whose construction completed *)

Init ==
    /\ enabled \in [Platforms -> BOOLEAN]
    /\ credentials \in [Platforms -> CredStates]
    /\ \E initOk \in [Platforms -> BOOLEAN] :
          LET li == LinkedInPosterInit(credentials["linkedin"],
                                       initOk["linkedin"]) IN
          /\ twitter_client =
                TwitterPosterInit(credentials["twitter"], initOk["twitter"])
          /\ linkedin_access_token = li.access_token
          /\ linkedin_user_id = li.user_id
          /\ reddit_client =
                RedditPosterInit(credentials["reddit"], initOk["reddit"])
    /\ ~CheckAvailabilityRaises(enabled, linkedin_access_token, linkedin_user_id)
    /\ available_platforms =
          check_platform_availability(enabled, twitter_client,
              linkedin_access_token, linkedin_user_id, reddit_client)
    /\ pc = "idle"
    /\ op = "none"
    /\ idea = {}
    /\ subreddits = <<>>
    /\ already_posted = {}
    /\ regen_raised = {}
    /\ text = NoText
    /\ prior = NoPrior
    /\ failed_platforms = {}
    /\ posts = [p \in Platforms |-> NoKey]
    /\ todo = <<>>
    /\ fut = [p \in Platforms |-> "none"]
    /\ behav = [p \in Platforms |-> NoBehaviour]
    /\ log_records = [p \in Platforms |-> <<>>]
    /\ results = EmptyResults
    /\ completed = <<>>
    /\ ret = NoRet
    /\ publishCalls = [p \in Platforms |-> 0]
    /\ genCalls = 0
    /\ generation = "none"
    /\ elapsed = 0
    /\ report = NoReport

\* the per-operation state at the start of an operation
Begin(o, pr, failed, ps, gens) ==
    /\ op' = o
    /\ subreddits' = <<>>
    /\ text' = NoText
    /\ prior' = pr
    /\ failed_platforms' = failed
    /\ posts' = ps
    /\ fut' = [p \in Platforms |-> "none"]
    /\ behav' = [p \in Platforms |-> NoBehaviour]
    /\ log_records' = [p \in Platforms |-> <<>>]
    /\ results' = EmptyResults
    /\ completed' = <<>>
    /\ publishCalls' = [p \in Platforms |-> 0]
    /\ genCalls' = gens
    /\ elapsed' = 0
    /\ report' = NoReport

\* entering _post_to_platforms with the ContentSet ps
EnterFanOut(ps) ==
    /\ todo' = KeysInOrder(ps, PlatformOrder)
    /\ pc' = IF KeysInOrder(ps, PlatformOrder) = <<>> THEN "collect" ELSE "submit"
    /\ ret' = NoRet

Ready == pc = "idle"

\* process_idea, up to the call of _post_to_platforms or the fail-fast return
ProcessIdea ==
    /\ Ready
    /\ idea' \in Ideas
    /\ already_posted' = {}
    /\ regen_raised' = {}
    /\ \E raw \in [Platforms -> RawResponses] :
          LET ps == generate_posts(raw) IN
          /\ Begin("process", NoPrior, {}, ps, 1)
          /\ generation' = "returned"
          /\ IF NoPostsGenerated(ps)
             THEN /\ ret' = FailFastReturn
                  /\ pc' = "returned"
                  /\ todo' = <<>>
             ELSE EnterFanOut(ps)
    /\ UNCHANGED configVars

\* process_idea when generate_posts raises: the except branch
ProcessIdeaGeneratorRaises ==
    /\ Ready
    /\ Begin("process", NoPrior, {}, [p \in Platforms |-> NoKey], 1)
    /\ generation' = "raised"
    /\ idea' \in Ideas
    /\ already_posted' = {}
    /\ regen_raised' = {}
    /\ ret' = ExceptionReturn
    /\ pc' = "returned"
    /\ todo' = <<>>
    /\ UNCHANGED configVars

\* _post_to_platforms: one iteration of "for platform, content in posts.items()"
SubmitNext ==
    /\ pc = "submit"
    /\ todo # <<>>
    /\ LET p == Head(todo) IN
          IF Eligible(p, posts[p])
          THEN /\ fut' = [fut EXCEPT ![p] = "queued"]
               /\ UNCHANGED results
          ELSE /\ results' = [results EXCEPT ![p] = SyntheticFailure(posts[p])]
               /\ UNCHANGED fut
    /\ todo' = Tail(todo)
    /\ pc' = IF Tail(todo) = <<>> THEN "collect" ELSE "submit"
    /\ UNCHANGED <<configVars, report, generation, op, prior,
                   failed_platforms, posts, behav, ret, completed,
                   publishCalls, genCalls, elapsed, log_records, idea,
                   subreddits, already_posted, regen_raised, text>>

\* worker threads of the pool that are executing a task
Busy == {p \in Platforms : fut[p] \in {"running", "hung"}}

\* a worker thread of the pool takes platform p's task and calls the adapter
StartTask(p) ==
    /\ fut[p] = "queued"
    /\ Cardinality(Busy) < MaxWorkers
    /\ fut' = [fut EXCEPT ![p] = "running"]
    /\ publishCalls' = [publishCalls EXCEPT ![p] = @ + 1]
    /\ subreddits' = IF p = "reddit" THEN get_suitable_subreddits(idea)
                      ELSE subreddits
    /\ UNCHANGED <<configVars, report, generation, pc, op, prior,
                   failed_platforms, posts, todo, behav, results, completed,
                   ret, genCalls, elapsed, log_records, idea, already_posted,
                   regen_raised, text>>

\* _post_to_single_platform for platform p comes back and the future is
\* done, or the remote call never returns
FinishTask(p) ==
    /\ fut[p] = "running"
    /\ \E b \in Behaviours :
          /\ behav' = [behav EXCEPT ![p] = b]
          /\ log_records' =
                [log_records EXCEPT ![p] = @ \o AdapterLog(AdapterReady(p), b)]
          /\ fut' = [fut EXCEPT ![p] = IF b.remote = "hang" THEN "hung" ELSE "done"]
    /\ UNCHANGED <<configVars, report, generation, pc, op, prior,
                   failed_platforms, posts, todo, results, completed, ret,
                   publishCalls, genCalls, elapsed, idea, subreddits,
                   already_posted, regen_raised, text>>

\* _post_to_platforms: one iteration of "for future in as_completed(...)"
Collect(p) ==
    /\ pc = "collect"
    /\ fut[p] = "done"
    /\ results' = [results EXCEPT ![future_to_platform(p)] =
                      FutureOutcome(p, post_to_single_platform(p, behav[p]))]
    /\ fut' = [fut EXCEPT ![p] = "collected"]
    /\ completed' = Append(completed, p)
    /\ UNCHANGED <<configVars, report, generation, pc, op, prior,
                   failed_platforms, posts, todo, behav, ret, publishCalls,
                   genCalls, elapsed, log_records, idea, subreddits,
                   already_posted, regen_raised, text>>

\* as_completed has yielded every future: _post_to_platforms returns and the
\* operation compiles its result
ReturnResults ==
    /\ pc = "collect"
    /\ Outstanding = {}
    /\ ret' = IF op = "process" THEN ProcessReturn(results)
              ELSE RetryReturn(results, failed_platforms)
    /\ pc' = "returned"
    /\ UNCHANGED <<configVars, report, generation, op, prior,
                   failed_platforms, posts, todo, fut, behav, results,
                   completed, publishCalls, genCalls, elapsed, log_records,
                   idea, subreddits, already_posted, regen_raised, text>>

\* time passes while as_completed blocks on futures that never complete
Tick ==
    /\ pc = "collect"
    /\ Outstanding # {}
    /\ \A p \in Outstanding : fut[p] = "hung"
    /\ elapsed <= PlatformTimeout
    /\ elapsed' = elapsed + 1
    /\ UNCHANGED <<configVars, report, generation, pc, op, prior,
                   failed_platforms, posts, todo, fut, behav, results,
                   completed, ret, publishCalls, genCalls, log_records, idea,
                   subreddits, already_posted, regen_raised, text>>

\* retry_failed_posts: "if self.available_platforms.get(platform, False)"
RetryCandidates(failed) == {p \in failed : available_platforms[p]}

\* the outcomes of one generate_posts call made by retry_failed_posts
RetryGenerations == {"raise"} \cup RawResponses

\* the generator's exception not swallowed per platform: one raising
\* regeneration leaves no platform to retry
RetryPostsAbortOnRaise(failed, gens) ==
    [p \in Platforms |->
        IF /\ p \in RetryCandidates(failed)
           /\ \A q \in RetryCandidates(failed) : gens[q] # "raise"
        THEN LET g == generate_posts([q \in Platforms |-> gens[p]])[p]
             IN  IF g = NoKey THEN "None" ELSE g
        ELSE NoKey]

\* retry_failed_posts: posts[platform] = platform_posts.get(platform), for the
\* candidates whose generate_posts call did not raise
RetryPosts(failed, gens) ==
    [p \in Platforms |->
        IF p \in RetryCandidates(failed) /\ gens[p] # "raise"
        THEN LET g == generate_posts([q \in Platforms |-> gens[p]])[p]
             IN  IF g = NoKey THEN "None" ELSE g
        ELSE NoKey]

\* retry_failed_posts, up to the call of _post_to_platforms or the no-op return
RetryFailedPosts ==
    /\ Ready
    /\ \E pr \in PriorResults :
          LET failed == FailedPlatforms(pr) IN
          IF failed = {}
          THEN /\ Begin("retry", pr, failed, [p \in Platforms |-> NoKey], 0)
               /\ regen_raised' = {}
               /\ ret' = NoFailedReturn
               /\ pc' = "returned"
               /\ todo' = <<>>
          ELSE \E gens \in [RetryCandidates(failed) -> RetryGenerations] :
                  LET ps == RetryPosts(failed, gens) IN
                  /\ Begin("retry", pr, failed, ps,
                           Cardinality(RetryCandidates(failed)))
                  /\ regen_raised' = {p \in RetryCandidates(failed) :
                                         gens[p] = "raise"}
                  /\ EnterFanOut(ps)
    /\ generation' = "none"
    /\ idea' \in Ideas
    /\ already_posted' = {}
    /\ UNCHANGED configVars

\* the probe results written back into available_platforms
TestAllConnectionsRefreshing ==
    /\ Ready
    /\ \E probe \in [Probed -> BOOLEAN] :
          /\ report' = [NoReport EXCEPT
                            !.kind = "test",
                            !.connections = test_all_connections(probe)]
          /\ available_platforms' =
                [p \in Platforms |-> test_all_connections(probe)[p]]
    /\ pc' = "returned"
    /\ op' = "test"
    /\ UNCHANGED <<enabled, credentials, twitter_client,
                   linkedin_access_token, linkedin_user_id, reddit_client,
                   prior, failed_platforms, posts, todo, fut, behav, results,
                   completed, ret, publishCalls, genCalls, generation,
                   elapsed, log_records, idea, subreddits, already_posted,
                   regen_raised, text>>

\* test_all_connections, with the answers of the four probes
TestAllConnections ==
    /\ Ready
    /\ \E probe \in [Probed -> BOOLEAN] :
          report' = [NoReport EXCEPT !.kind = "test",
                                     !.connections = test_all_connections(probe)]
    /\ pc' = "returned"
    /\ op' = "test"
    /\ UNCHANGED <<configVars, prior, failed_platforms, posts, todo, fut,
                   behav, results, completed, ret, publishCalls, genCalls,
                   generation, elapsed, log_records, idea, subreddits,
                   already_posted, regen_raised, text>>

\* get_platform_status
GetPlatformStatus ==
    /\ Ready
    /\ report' = [NoReport EXCEPT !.kind = "status",
                                  !.status = get_platform_status]
    /\ pc' = "returned"
    /\ op' = "status"
    /\ UNCHANGED <<configVars, prior, failed_platforms, posts, todo, fut,
                   behav, results, completed, ret, publishCalls, genCalls,
                   generation, elapsed, log_records, idea, subreddits,
                   already_posted, regen_raised, text>>

\* the caller takes the returned dictionary; the coordinator is idle again
TakeResult ==
    /\ pc = "returned"
    /\ pc' = "idle"
    /\ Begin("none", NoPrior, {}, [p \in Platforms |-> NoKey], 0)
    /\ generation' = "none"
    /\ idea' = {}
    /\ already_posted' = {}
    /\ regen_raised' = {}
    /\ ret' = NoRet
    /\ todo' = <<>>
    /\ UNCHANGED configVars

Next ==
    \/ ProcessIdea
    \/ ProcessIdeaGeneratorRaises
    \/ RetryFailedPosts
    \/ TestAllConnections
    \/ GetPlatformStatus
    \/ SubmitNext
    \/ \E p \in Platforms : StartTask(p)
    \/ \E p \in Platforms : FinishTask(p)
    \/ \E p \in Platforms : Collect(p)
    \/ ReturnResults
    \/ TakeResult
    \/ Tick

Spec == Init /\ [][Next]_vars

-----------------------------------------------------------------------------
(* Construction of the coordinator: PostManager.__init__ *)

\* available_platforms before _check_platform_availability has returned
NotComputed == [p \in Platforms |-> "<unset>"]

\* the process before PostManager() is called: configuration loaded, no
\* adapter constructed
InitNew ==
    /\ enabled \in [Platforms -> BOOLEAN]
    /\ credentials \in [Platforms -> CredStates]
    /\ twitter_client = "<unset>"
    /\ linkedin_access_token = "<unset>"
    /\ linkedin_user_id = "<noattr>"
    /\ reddit_client = "<unset>"
    /\ available_platforms = NotComputed
    /\ pc = "new"
    /\ op = "none"
    /\ idea = {}
    /\ subreddits = <<>>
    /\ already_posted = {}
    /\ regen_raised = {}
    /\ text = NoText
    /\ prior = NoPrior
    /\ failed_platforms = {}
    /\ posts = [p \in Platforms |-> NoKey]
    /\ todo = <<>>
    /\ fut = [p \in Platforms |-> "none"]
    /\ behav = [p \in Platforms |-> NoBehaviour]
    /\ log_records = [p \in Platforms |-> <<>>]
    /\ results = EmptyResults
    /\ completed = <<>>
    /\ ret = NoRet
    /\ publishCalls = [p \in Platforms |-> 0]
    /\ genCalls = 0
    /\ generation = "none"
    /\ elapsed = 0
    /\ report = NoReport

\* PostManager.__init__: the three adapters are constructed, then
\* _check_platform_availability computes the map or raises AttributeError
PostManagerInit ==
    /\ pc = "new"
    /\ \E initOk \in [Platforms -> BOOLEAN] :
          LET tc == TwitterPosterInit(credentials["twitter"], initOk["twitter"])
              li == LinkedInPosterInit(credentials["linkedin"],
                                       initOk["linkedin"])
              rc == RedditPosterInit(credentials["reddit"], initOk["reddit"])
          IN  /\ twitter_client' = tc
              /\ linkedin_access_token' = li.access_token
              /\ linkedin_user_id' = li.user_id
              /\ reddit_client' = rc
              /\ IF CheckAvailabilityRaises(enabled, li.access_token, li.user_id)
                 THEN /\ pc' = "raised"
                      /\ available_platforms' = NotComputed
                 ELSE /\ pc' = "idle"
                      /\ available_platforms' =
                            check_platform_availability(enabled, tc,
                                li.access_token, li.user_id, rc)
    /\ UNCHANGED <<enabled, credentials, op, prior, failed_platforms, posts,
                   todo, fut, behav, results, completed, ret, publishCalls,
                   genCalls, generation, elapsed, report, log_records, idea,
                   subreddits, already_posted, regen_raised, text>>

SpecConstruction == InitNew /\ [][PostManagerInit]_vars

-----------------------------------------------------------------------------
(* The routing function on its own: get_suitable_subreddits for any idea *)

\* an idea of any words, before _post_to_single_platform routes it
InitRouting ==
    /\ idea \in SUBSET Words
    /\ subreddits = <<>>
    /\ already_posted = {}
    /\ regen_raised = {}
    /\ text = NoText
    /\ pc = "routing"
    /\ enabled = [p \in Platforms |-> TRUE]
    /\ credentials = [p \in Platforms |-> "set"]
    /\ twitter_client = "client"
    /\ linkedin_access_token = "token"
    /\ linkedin_user_id = "id"
    /\ reddit_client = "reddit"
    /\ available_platforms = [p \in Platforms |-> TRUE]
    /\ op = "none"
    /\ prior = NoPrior
    /\ failed_platforms = {}
    /\ posts = [p \in Platforms |-> NoKey]
    /\ todo = <<>>
    /\ fut = [p \in Platforms |-> "none"]
    /\ behav = [p \in Platforms |-> NoBehaviour]
    /\ log_records = [p \in Platforms |-> <<>>]
    /\ results = EmptyResults
    /\ completed = <<>>
    /\ ret = NoRet
    /\ publishCalls = [p \in Platforms |-> 0]
    /\ genCalls = 0
    /\ generation = "none"
    /\ elapsed = 0
    /\ report = NoReport

\* _post_to_single_platform, reddit branch: the routing lines
RouteReddit ==
    /\ pc = "routing"
    /\ subreddits' = get_suitable_subreddits(idea)
    /\ pc' = "routed"
    /\ UNCHANGED <<configVars, idea, op, prior, failed_platforms, posts, todo,
                   fut, behav, log_records, results, completed, ret,
                   publishCalls, genCalls, generation, elapsed, report,
                   already_posted, regen_raised, text>>

SpecRouting == InitRouting /\ [][RouteReddit]_vars

-----------------------------------------------------------------------------
(* The length of a text from the backend to the adapter, and *)
(* truncate_content for any limit                             *)

\* lengths of the raw texts the backend returns
MaxRawLength == 10010

\* lengths and limits truncate_content is applied to on its own
MaxAnyLength == 40
MaxAnyLimit == 20

InitLength ==
    /\ pc = "length"
    /\ text = NoText
    /\ idea = {}
    /\ subreddits = <<>>
    /\ already_posted = {}
    /\ regen_raised = {}
    /\ enabled = [p \in Platforms |-> TRUE]
    /\ credentials = [p \in Platforms |-> "set"]
    /\ twitter_client = "client"
    /\ linkedin_access_token = "token"
    /\ linkedin_user_id = "id"
    /\ reddit_client = "reddit"
    /\ available_platforms = [p \in Platforms |-> TRUE]
    /\ op = "none"
    /\ prior = NoPrior
    /\ failed_platforms = {}
    /\ posts = [p \in Platforms |-> NoKey]
    /\ todo = <<>>
    /\ fut = [p \in Platforms |-> "none"]
    /\ behav = [p \in Platforms |-> NoBehaviour]
    /\ log_records = [p \in Platforms |-> <<>>]
    /\ results = EmptyResults
    /\ completed = <<>>
    /\ ret = NoRet
    /\ publishCalls = [p \in Platforms |-> 0]
    /\ genCalls = 0
    /\ generation = "none"
    /\ elapsed = 0
    /\ report = NoReport

\* _generate_single_post for platform p when the backend's text, stripped,
\* has length raw: the text stored in the ContentSet
GenerateSinglePost ==
    /\ text.stage = "none"
    /\ \E p \in Platforms, raw \in 0..MaxRawLength :
          text' = [NoText EXCEPT !.stage = "stored",
                                 !.platform = p,
                                 !.raw = raw,
                                 !.max_length = max_length[p],
                                 !.stored = GeneratedText(raw, max_length[p])]
    /\ UNCHANGED <<configVars, pc, op, idea, subreddits, already_posted,
                   regen_raised, prior, failed_platforms, posts, todo, fut,
                   behav, log_records, results, completed, ret, publishCalls,
                   genCalls, generation, elapsed, report>>

\* the adapter's call of truncate_content on the text it was handed
AdapterTruncate ==
    /\ text.stage = "stored"
    /\ text' = [text EXCEPT
                   !.stage = "sent",
                   !.sent = truncate_content(text.stored,
                                AdapterLimit[text.platform], text.platform)]
    /\ UNCHANGED <<configVars, pc, op, idea, subreddits, already_posted,
                   regen_raised, prior, failed_platforms, posts, todo, fut,
                   behav, log_records, results, completed, ret, publishCalls,
                   genCalls, generation, elapsed, report>>

\* truncate_content applied to a text of any length with any limit
TruncateAny ==
    /\ text.stage = "none"
    /\ \E p \in Platforms, n \in 0..MaxAnyLength, limit \in 0..MaxAnyLimit :
          text' = [NoText EXCEPT
                      !.stage = "truncated",
                      !.platform = p,
                      !.raw = n,
                      !.max_length = limit,
                      !.stored = [len |-> n, cuts |-> 0],
                      !.sent = truncate_content([len |-> n, cuts |-> 0],
                                                limit, p)]
    /\ UNCHANGED <<configVars, pc, op, idea, subreddits, already_posted,
                   regen_raised, prior, failed_platforms, posts, todo, fut,
                   behav, log_records, results, completed, ret, publishCalls,
                   genCalls, generation, elapsed, report>>

NextLength == GenerateSinglePost \/ AdapterTruncate \/ TruncateAny

SpecLength == InitLength /\ [][NextLength]_vars

-----------------------------------------------------------------------------
(* The chat front end: handle_message and handle_callback of bot.py *)

\* handle_message: the reply carries the "Retry Failed Posts" button when the
\* result is a success and some outcome failed; the reply of handle_callback
\* carries none (already_posted is empty outside a callback)
RetryButtonShown ==
    /\ pc = "returned"
    /\ op = "process"
    /\ already_posted = {}
    /\ ret.success
    /\ \E p \in Platforms :
          ret.results[p] # NoOutcome /\ ~ret.results[p].success

\* handle_callback: the button is pressed and process_idea is called again
\* with the idea of the button
HandleCallback ==
    /\ RetryButtonShown
    /\ idea' = idea
    /\ already_posted' = {p \in Platforms : ret.results[p].success}
    /\ regen_raised' = {}
    /\ \/ \E raw \in [Platforms -> RawResponses] :
             LET ps == generate_posts(raw) IN
             /\ Begin("process", NoPrior, {}, ps, 1)
             /\ generation' = "returned"
             /\ IF NoPostsGenerated(ps)
                THEN /\ ret' = FailFastReturn
                     /\ pc' = "returned"
                     /\ todo' = <<>>
                ELSE EnterFanOut(ps)
       \/ /\ Begin("process", NoPrior, {}, [p \in Platforms |-> NoKey], 1)
          /\ generation' = "raised"
          /\ ret' = ExceptionReturn
          /\ pc' = "returned"
          /\ todo' = <<>>
    /\ UNCHANGED configVars

NextBot ==
    \/ ProcessIdea
    \/ ProcessIdeaGeneratorRaises
    \/ HandleCallback
    \/ SubmitNext
    \/ \E p \in Platforms : StartTask(p)
    \/ \E p \in Platforms : FinishTask(p)
    \/ \E p \in Platforms : Collect(p)
    \/ ReturnResults
    \/ TakeResult

SpecBot == Init /\ [][NextBot]_vars

-----------------------------------------------------------------------------
(* Properties *)

Returned(o) == pc = "returned" /\ op = o

\* platforms for which this operation invoked the adapter's publish call
Published == {p \in Platforms : publishCalls[p] > 0}

\* keys of a per-platform result mapping
ResultKeys(res) == {p \in Platforms : res[p] # NoOutcome}

\* platforms with content present and marked available
ContentAndAvailable == {p \in Platforms : Truthy(posts[p]) /\ available_platforms[p]}

\* the configuration as shipped in config.py: every platform enabled
ShippedConfiguration == \A p \in Platforms : enabled[p]

\* one dispatched publish call never returns, the other dispatched calls
\* have returned and their outcomes have been collected
BlockedOnHung ==
    /\ pc = "collect"
    /\ Cardinality({p \in Platforms : fut[p] = "hung"}) = 1
    /\ \E p \in Platforms : fut[p] = "collected" /\ results[p] # NoOutcome
    /\ \A p \in Platforms : fut[p] \in {"none", "collected", "hung"}

\* C1: when one dispatched platform's publish call never returns and the
\* others have returned, process_idea is not still waiting once the
\* per-platform timeout has passed (it returns, with a timeout Failure for
\* the hanging platform and the siblings' outcomes).  Stated for the shipped
\* configuration.
C1_TimeoutProperty ==
    (ShippedConfiguration /\ op = "process" /\ BlockedOnHung) =>
        elapsed <= PlatformTimeout

\* C2: when the publish call of a dispatched platform raises, that platform's
\* outcome is a Failure with an error message, every dispatched platform's
\* outcome is the one its own publish call determines, and process_idea
\* returns its result mapping instead of raising.
C2_ExceptionIsolation ==
    (Returned("process") /\ Published # {}) =>
        /\ ret.keys = {"success", "results", "summary"}
        /\ \A p \in Published :
              /\ ret.results[p].origin = p
              /\ behav[p].log = "fail" =>
                    /\ ~ret.results[p].success
                    /\ ret.results[p].error \notin {"<absent>", "<none>", ""}
              /\ behav[p].log = "ok" =>
                    ret.results[p].success = (behav[p].remote = "ok")

C2_Witness ==
    /\ Returned("process")
    /\ \E p, q \in Published :
          /\ p # q
          /\ behav[p].log = "fail"
          /\ behav[q] = [remote |-> "ok", log |-> "ok"]
          /\ ret.results[q].success
          /\ ~ret.results[p].success

C4_Original ==
    (ShippedConfiguration /\ Returned("process") /\ ContentAndAvailable # {}) =>
        /\ ret.total_platforms = Cardinality(ContentAndAvailable)
        /\ ret.total_platforms = Cardinality(Published)

\* C4 (amended): summary.total_platforms is the number of platforms marked
\* available, with or without content; the publish calls issued are those
\* of the platforms with content that are available, at most that number.
C4_TotalPlatformsCountsAvailable ==
    (Returned("process") /\ ContentAndAvailable # {}) =>
        /\ ret.total_platforms =
              Cardinality({p \in Platforms : available_platforms[p]})
        /\ Published = ContentAndAvailable
        /\ Cardinality(Published) <= ret.total_platforms

C4_Witness ==
    /\ Returned("process")
    /\ ret.total_platforms = 2
    /\ Cardinality(Published) = 1
    /\ \E p \in Platforms : available_platforms[p] /\ posts[p] = "None"

\* C5: every result of process_idea has success = (successful_posts > 0),
\* successful_posts being the number of outcomes of the result whose success
\* flag is true; the fail-fast and exception results have success false.
C5_OverallSuccess ==
    Returned("process") =>
        IF "results" \in ret.keys
        THEN /\ ret.success = (ret.successful_posts > 0)
             /\ ret.successful_posts =
                   Cardinality({p \in Platforms : ret.results[p].success})
        ELSE ~ret.success

C5_Witness ==
    /\ Returned("process")
    /\ ret.success
    /\ ret.successful_posts = 2
    /\ Cardinality(ResultKeys(ret.results)) = 3

\* C6: when generate_posts returns a ContentSet whose every entry is absent
\* (an empty ContentSet included), process_idea returns success false with
\* an error message and no per-platform outcomes, and publishes nowhere.
C6_FailFast ==
    (op = "process" /\ ret # ExceptionReturn
        /\ \A p \in Platforms : ~Truthy(posts[p])) =>
        /\ pc = "returned"
        /\ ~ret.success
        /\ ret.keys = {"success", "error"}
        /\ ret.error = "Failed to generate any posts"
        /\ ret.results = EmptyResults
        /\ \A p \in Platforms : publishCalls[p] = 0 /\ fut[p] = "none"

C6_Witness ==
    /\ Returned("process")
    /\ ret = FailFastReturn
    /\ \E p, q \in Platforms :
          /\ posts[p] = "None" /\ available_platforms[p]
          /\ posts[q] = ""

C8_RetryOnlyFailed ==
    op = "retry" =>
        /\ \A p \in Platforms :
              prior.results[p] = "success" =>
                  publishCalls[p] = 0 /\ fut[p] = "none"
        /\ \A a, b \in Platforms :
              (/\ pc = "returned"
               /\ a # b
               /\ prior.results[a] = "success"
               /\ prior.results[b] = "failure"
               /\ \A c \in Platforms \ {a, b} : prior.results[c] = NoKey
               /\ available_platforms[b]) =>
                  /\ ret.retried_platforms = {b}
                  /\ Published \subseteq {b}

C8_Witness ==
    /\ Returned("retry")
    /\ \E a, b \in Platforms :
          /\ prior.results[a] = "success"
          /\ prior.results[b] = "failure"
          /\ \A c \in Platforms \ {a, b} : prior.results[c] = NoKey
          /\ Published = {b}
          /\ ret.retried_platforms = {b}
          /\ available_platforms[a]

\* C9: when every outcome of the prior result is a success,
\* retry_failed_posts returns the no-op success (success true, a message, no
\* results mapping, no retried_platforms) without calling the generator or
\* an adapter, and every retry that had failed platforms returns a result of
\* another shape.
C9_NoFailedRetry ==
    Returned("retry") =>
        IF \A p \in Platforms : prior.results[p] # "failure"
        THEN /\ ret.success
             /\ ret.keys = {"success", "message"}
             /\ ret.message = "No failed posts to retry"
             /\ ret.results = EmptyResults
             /\ genCalls = 0
             /\ Published = {}
        ELSE /\ ret.keys = {"success", "results", "retried_platforms"}
             /\ ret.message = "<absent>"

C9_Witness ==
    /\ Returned("retry")
    /\ \A p \in Platforms : prior.results[p] = "success"
    /\ ret = NoFailedReturn
    /\ genCalls = 0

\* C10: retried_platforms is the set of platforms the retry published to,
\* and the key set of the retry's result mapping, for every prior result and
\* availability map.  Stated for the shipped configuration and for retries
\* in which content was regenerated for every platform that was retried.
C10_RetriedPlatforms ==
    (/\ ShippedConfiguration
     /\ Returned("retry")
     /\ "retried_platforms" \in ret.keys
     /\ \A p \in Keys(posts) : Truthy(posts[p])) =>
        /\ ret.retried_platforms = Published
        /\ ret.retried_platforms = ResultKeys(ret.results)

\* C11: a failure of the log sink never changes the result of process_idea:
\* a dispatched platform whose remote publish succeeded has a Success
\* outcome whether or not log_post fails, and one whose remote publish
\* failed carries the adapter's publish error, not an error of the log
\* write.  Stated for the shipped configuration.
C11_LogFailureKeepsResult ==
    (ShippedConfiguration /\ Returned("process")) =>
        \A p \in Published :
            /\ behav[p].remote = "ok" => ret.results[p].success
            /\ behav[p].remote = "error" =>
                  ret.results[p].error = "adapter error"

\* C12: for every order in which the dispatched publish tasks complete, the
\* returned mapping gives each dispatched platform the outcome of its own
\* adapter call, whatever was collected before it; when all three adapters
\* fail, success is false, the successful count is 0 and each platform
\* carries its own failure.
C12_OrderIndependent ==
    (pc = "returned" /\ Published # {}) =>
        /\ Len(completed) = Cardinality(Published)
        /\ \A p \in Published :
              ret.results[p] = post_to_single_platform(p, behav[p]).value
        /\ (Published = Platforms
              /\ \A p \in Platforms : behav[p].remote = "error") =>
              /\ ~ret.success
              /\ op = "process" => ret.successful_posts = 0
              /\ \A p, q \in Platforms :
                    p # q => ret.results[p] # ret.results[q]

C12_Witness ==
    /\ Returned("process")
    /\ completed = <<"reddit", "twitter", "linkedin">>
    /\ \A p \in Platforms :
          /\ behav[p] = [remote |-> "error", log |-> "ok"]
          /\ ret.results[p] =
                [success |-> FALSE, error |-> "adapter error", origin |-> p]
    /\ ret.successful_posts = 0

\* C13: in one process_idea or retry_failed_posts call every eligible
\* publish task is submitted before any result is collected, the call does
\* not return while one of its tasks is queued, running or uncollected, and
\* at return every dispatched platform has its outcome in the mapping.
C13_JoinBeforeReturn ==
    /\ (\E p \in Platforms : fut[p] = "collected") =>
          /\ todo = <<>>
          /\ \A q \in ContentAndAvailable : fut[q] # "none"
    /\ pc = "returned" =>
          \A p \in Platforms : fut[p] \in {"none", "collected"}
    /\ (pc = "returned" /\ "results" \in ret.keys) =>
          \A p \in ContentAndAvailable :
              /\ fut[p] = "collected"
              /\ publishCalls[p] = 1
              /\ ret.results[p].origin = p

C13_Witness ==
    /\ Returned("retry")
    /\ Cardinality(ContentAndAvailable) = 2
    /\ \A p \in ContentAndAvailable :
          fut[p] = "collected" /\ ret.results[p].origin = p
    /\ \E p, q \in ContentAndAvailable :
          ret.results[p].success /\ ~ret.results[q].success

\* C14: within one process_idea or retry_failed_posts call at most one
\* publish call is issued per platform, so a platform never has two publish
\* calls in flight, and the number of publish tasks running at the same time
\* never exceeds the pool's max_workers.
C14_OnePublishPerPlatform ==
    /\ \A p \in Platforms : publishCalls[p] <= 1
    /\ \A p \in Busy : publishCalls[p] = 1
    /\ Cardinality(Busy) <= MaxWorkers

C14_Witness ==
    /\ op = "process"
    /\ Cardinality(Busy) = MaxWorkers
    /\ \A p \in Platforms : fut[p] = "running" /\ publishCalls[p] = 1

\* the adapter of platform p initialized successfully
InitializedSuccessfully(p) ==
    CASE p = "twitter"  -> twitter_client = "client"
      [] p = "linkedin" -> linkedin_access_token = "token"
                           /\ linkedin_user_id = "id"
      [] p = "reddit"   -> reddit_client = "reddit"

\* C15: for every combination of the enabled flags and of what the three
\* adapter constructors leave behind, _check_platform_availability returns
\* a map in which availability[p] is true exactly when p is enabled and its
\* adapter initialized successfully (twitter: client set; linkedin: access
\* token and user id set; reddit: client set).  Stated for the shipped
\* configuration.
C15_ComputeAvailability ==
    (ShippedConfiguration /\ pc # "new") =>
        /\ pc = "idle"
        /\ \A p \in Platforms :
              available_platforms[p] = (enabled[p] /\ InitializedSuccessfully(p))

\* C16: no step of process_idea, retry_failed_posts, test_all_connections or
\* get_platform_status, whatever the adapters and the probes answer, changes
\* available_platforms: it keeps the value computed at construction.
C16_AvailabilityNeverChanges ==
    [][available_platforms' = available_platforms]_vars

C16_Witness ==
    /\ Returned("test")
    /\ report.kind = "test"
    /\ \E p, q \in Platforms :
          /\ available_platforms[p] /\ ~report.connections[p]
          /\ available_platforms[q] /\ report.connections[q]
    /\ available_platforms =
          check_platform_availability(enabled, twitter_client,
              linkedin_access_token, linkedin_user_id, reddit_client)

\* process_idea returned an error dictionary and started no publish task
AbortedEarly ==
    /\ ret.keys = {"success", "error"}
    /\ ~ret.success
    /\ ret.error \notin {"<absent>", ""}
    /\ Published = {}
    /\ \A p \in Platforms : fut[p] = "none"

\* C17 (as claimed): process_idea aborts early only when the content
\* generator raises; in every other case, whatever the mix of platforms
\* without content, unavailable platforms and failing adapters, it returns
\* a result with a per-platform mapping.  Stated for the shipped
\* configuration.
C17_Original ==
    (ShippedConfiguration /\ Returned("process")) =>
        IF generation = "raised"
        THEN AbortedEarly
        ELSE "results" \in ret.keys

\* C17 (amended): process_idea aborts early, with success false, an error
\* and no publish call, when the content generator raises and also when no
\* platform of the ContentSet has content; in every other case it returns a
\* result with an outcome for every platform of the ContentSet, even when
\* every publish fails or raises.  It returns a dictionary in all cases.
C17_EarlyAborts ==
    Returned("process") =>
        /\ ret.keys # {}
        /\ IF generation = "raised" \/ NoPostsGenerated(posts)
           THEN AbortedEarly
           ELSE /\ ret.keys = {"success", "results", "summary"}
                /\ ResultKeys(ret.results) = Keys(posts)

C17_Witness ==
    /\ Returned("process")
    /\ generation = "returned"
    /\ Published # {}
    /\ \A p \in Published : behav[p].log = "fail" \/ behav[p].remote = "error"
    /\ \E p \in Published : behav[p].log = "fail"
    /\ \E p, q \in Platforms :
          /\ ret.results[p] = Synthetic("No content generated")
          /\ ret.results[q] = Synthetic("Platform not available")
    /\ ~ret.success
    /\ "results" \in ret.keys

\* the outcome of platform p as the ContentSet, the availability map and the
\* behaviour of p's remote platform and log sink determine it
DeterminedOutcome(p) ==
    IF posts[p] = NoKey THEN NoOutcome
    ELSE IF Truthy(posts[p]) /\ available_platforms[p]
         THEN post_to_single_platform(p, behav[p]).value
         ELSE SyntheticFailure(posts[p])

\* C18: the result of process_idea is a function of the generated
\* ContentSet, the availability map and the behaviour of each adapter: two
\* runs that agree on these return the same success flag, counts and
\* per-platform outcomes, whatever the order in which the tasks were
\* started, finished and collected.
C18_Deterministic ==
    (Returned("process") /\ generation = "returned") =>
        ret = IF NoPostsGenerated(posts) THEN FailFastReturn
              ELSE ProcessReturn([p \in Platforms |-> DeterminedOutcome(p)])

C18_Witness ==
    /\ Returned("process")
    /\ completed = <<"linkedin", "twitter">>
    /\ behav["twitter"] = [remote |-> "ok", log |-> "ok"]
    /\ behav["linkedin"] = [remote |-> "error", log |-> "ok"]
    /\ ret.results["reddit"] = Synthetic("No content generated")
    /\ ret.successful_posts = 1
    /\ ret.total_platforms = 3

\* C19: the result mapping of retry_failed_posts holds no entry for a
\* platform that succeeded in the prior result, only outcomes of this
\* retry's own fan-out, and the prior result handed in is the same from the
\* call to the return.
C19_RetryUnmerged ==
    /\ [](Returned("retry") =>
            /\ \A p \in Platforms :
                  prior.results[p] = "success" => ret.results[p] = NoOutcome
            /\ ResultKeys(ret.results) \subseteq FailedPlatforms(prior)
            /\ ret.results = results)
    /\ [][(op = "retry" /\ op' = "retry") => prior' = prior]_vars

C19_Witness ==
    /\ Returned("retry")
    /\ \E a, b \in Platforms :
          /\ prior.results[a] = "success"
          /\ available_platforms[a]
          /\ ret.results[a] = NoOutcome
          /\ prior.results[b] = "failure"
          /\ ret.results[b].success
    /\ prior.keys = {"success", "results", "summary"}

\* C20: in every ContentSet generate_posts returns to process_idea each
\* platform entry is absent (None) or a non-empty text, never the empty
\* string, whatever the language-model backend answered (whitespace-only
\* text included).  Stated for the shipped configuration.
C20_NoEmptyContent ==
    (ShippedConfiguration /\ op = "process" /\ generation = "returned") =>
        \A p \in Keys(posts) : posts[p] = "None" \/ Truthy(posts[p])

\* C21: for every per-platform outcome of a result of process_idea, real or
\* synthetic, exactly one record for that platform was written to the log
\* sink during the call, with status "success" exactly when the outcome is a
\* Success.  Stated for the shipped configuration with every platform
\* available, and for successful calls during which no log write failed.
C21_LogRecordPerOutcome ==
    (/\ ShippedConfiguration
     /\ Returned("process")
     /\ ret.success
     /\ \A p \in Platforms : available_platforms[p] /\ behav[p].log # "fail") =>
        \A p \in ResultKeys(ret.results) :
            /\ Len(log_records[p]) = 1
            /\ (log_records[p][1] = "success") = ret.results[p].success

\* C22: in the result of a fan-out a platform of the ContentSet whose
\* content is absent has the error "No content generated" whether or not it
\* is available, a platform with content that is not available has
\* "Platform not available", and neither is published to; with content
\* {twitter: text, linkedin: absent, reddit: text}, twitter and linkedin
\* available, reddit not, and twitter's publish succeeding, the result has
\* exactly one success and only twitter's adapter is called.
C22_ReasonPrecedence ==
    (pc = "returned" /\ "results" \in ret.keys) =>
        /\ \A p \in Keys(posts) :
              /\ ~Truthy(posts[p]) =>
                    /\ ret.results[p] = Synthetic("No content generated")
                    /\ publishCalls[p] = 0
              /\ (Truthy(posts[p]) /\ ~available_platforms[p]) =>
                    /\ ret.results[p] = Synthetic("Platform not available")
                    /\ publishCalls[p] = 0
        /\ (/\ op = "process"
            /\ Truthy(posts["twitter"]) /\ Truthy(posts["reddit"])
            /\ posts["linkedin"] = "None"
            /\ available_platforms["twitter"]
            /\ available_platforms["linkedin"]
            /\ ~available_platforms["reddit"]
            /\ behav["twitter"] = [remote |-> "ok", log |-> "ok"]) =>
              /\ ret.successful_posts = 1
              /\ ret.success
              /\ Published = {"twitter"}

C22_Witness ==
    /\ Returned("process")
    /\ posts = [twitter |-> "text", linkedin |-> "None", reddit |-> "text"]
    /\ available_platforms =
          [twitter |-> TRUE, linkedin |-> TRUE, reddit |-> FALSE]
    /\ ret.results["twitter"].success
    /\ ret.results["linkedin"] = Synthetic("No content generated")
    /\ ret.results["reddit"] = Synthetic("Platform not available")
    /\ ret.successful_posts = 1
    /\ publishCalls = [twitter |-> 1, linkedin |-> 0, reddit |-> 0]

\* positions in the lookup table of the keywords the lower-cased idea contains
MatchedKeywords ==
    {i \in DOMAIN Keywords : Keywords[i] \in {LowerWord(w) : w \in idea}}

\* C23: the target sub-forum is the first element of the list of the first
\* keyword, in lookup-table order, that the lower-cased idea contains, and
\* "test" when it contains none; the list get_suitable_subreddits returns is
\* never empty and has at most 3 entries.
C23_Routing ==
    pc = "routed" =>
        /\ Len(subreddits) >= 1
        /\ Len(subreddits) <= 3
        /\ TargetSubreddit(subreddits) =
              IF MatchedKeywords = {} THEN "test"
              ELSE LET first == CHOOSE i \in MatchedKeywords :
                                    \A j \in MatchedKeywords : i <= j
                   IN  subreddit_mapping[Keywords[first]][1]

C23_Witness ==
    /\ pc = "routed"
    /\ idea = {"Music", "programming", "hello"}
    /\ subreddits = <<"programming", "coding", "learnprogramming">>

\* C24: the choice of the target sub-forum for reddit is made before
\* reddit's publish task is submitted to the worker pool: whenever the task
\* has been submitted, the routing decision exists.  Stated for the shipped
\* configuration.
C24_RoutingBeforeDispatch ==
    (ShippedConfiguration /\ fut["reddit"] # "none") => subreddits # <<>>

\* C25: for raw text of any length the text stored in the ContentSet for a
\* platform is no longer than the platform's limit (280 / 3000 / 10000), so
\* the adapter's truncate_content returns it unchanged; and truncate_content
\* never returns a text longer than max_length when max_length >= 10.
C25_LengthLimits ==
    /\ text.stage \in {"stored", "sent"} =>
          /\ text.stored.len <= AdapterLimit[text.platform]
          /\ text.stored.len <= text.raw
    /\ text.stage = "sent" => text.sent = text.stored
    /\ (text.stage = "truncated" /\ text.max_length >= 10) =>
          text.sent.len <= text.max_length

C25_Witness ==
    /\ text.stage = "sent"
    /\ text.platform = "twitter"
    /\ text.raw = 300
    /\ text.stored = [len |-> 280, cuts |-> 1]
    /\ text.sent = text.stored

\* C26: after a process call in which a platform succeeded and another
\* failed, pressing "Retry Failed Posts" issues no publish call to a platform
\* that had succeeded: no platform is posted to twice for the same idea.
\* Stated for the shipped configuration with every platform available.
C26_RetryButtonOnlyFailed ==
    (ShippedConfiguration /\ \A q \in Platforms : available_platforms[q]) =>
        \A p \in already_posted : publishCalls[p] = 0

\* C27: for every platform and every credential state (unset, empty string,
\* set but rejected), constructing the coordinator, adapter constructors and
\* _check_platform_availability included, completes without raising, and a
\* platform whose credentials are unset or empty is unavailable.  Stated for
\* the shipped configuration.
C27_MissingCredentialsDisable ==
    (ShippedConfiguration /\ pc # "new") =>
        /\ pc # "raised"
        /\ \A p \in Platforms :
              credentials[p] \in {"unset", "empty"} => ~available_platforms[p]

\* C28: given a prior result with no per-platform outcome at all, such as the
\* fail-fast result {success: false, error: ...} of process_idea,
\* retry_failed_posts returns the no-op success with the message "No failed
\* posts to retry" and calls neither the generator nor an adapter.
C28_NothingToRetry ==
    (Returned("retry") /\ \A p \in Platforms : prior.results[p] = NoKey) =>
        /\ ret = NoFailedReturn
        /\ failed_platforms = {}
        /\ genCalls = 0
        /\ \A p \in Platforms : publishCalls[p] = 0 /\ fut[p] = "none"

C28_Witness ==
    /\ Returned("retry")
    /\ prior.keys = {"success", "error"}
    /\ ret.success
    /\ ret.message = "No failed posts to retry"
    /\ genCalls = 0
    /\ Published = {}

\* C29: in one retry_failed_posts call the generator is invoked once for each
\* failed platform that is available (not at all when there is none), the
\* content handed on has an entry exactly for those of them whose generation
\* did not raise, a platform whose generation raised is absent from the
\* retry's result mapping, and the others are still retried.
C29_RegenerationPerPlatform ==
    Returned("retry") =>
        LET candidates == {p \in failed_platforms : available_platforms[p]}
            kept == candidates \ regen_raised
        IN  /\ genCalls = Cardinality(candidates)
            /\ regen_raised \subseteq candidates
            /\ failed_platforms # {} =>
                  /\ Keys(posts) = kept
                  /\ ResultKeys(ret.results) = kept
                  /\ \A p \in kept : Truthy(posts[p]) => publishCalls[p] = 1
                  /\ \A p \in Platforms \ kept : publishCalls[p] = 0

C29_Witness ==
    /\ Returned("retry")
    /\ genCalls = 2
    /\ \E a, b \in failed_platforms :
          /\ a \in regen_raised
          /\ ret.results[a] = NoOutcome
          /\ b \notin regen_raised
          /\ publishCalls[b] = 1
          /\ ret.results[b].success

\* C30: in every report of get_platform_status, for every configuration and
\* every outcome of the adapter constructors, each of the three platforms
\* has the three boolean fields enabled, available and configured, and a
\* platform reported available is reported enabled and configured.
C30_AvailableImpliesConfigured ==
    Returned("status") =>
        /\ DOMAIN report.status = Platforms
        /\ \A p \in Platforms :
              /\ report.status[p] \in [enabled : BOOLEAN, available : BOOLEAN,
                                       configured : BOOLEAN]
              /\ report.status[p].available =>
                    report.status[p].enabled /\ report.status[p].configured

C30_Witness ==
    /\ Returned("status")
    /\ \E p, q \in Platforms :
          /\ report.status[p].available
          /\ report.status[p].enabled
          /\ report.status[p].configured
          /\ report.status[q].enabled
          /\ report.status[q].configured
          /\ ~report.status[q].available

=============================================================================
